---- MODULE Spec2Model ----
(***************************************************************************)
(* Model of the tkhrn-ruler command line wrapper: the backup-name          *)
(* derivation, the tree synchronizer (copyCommandsWithBackup), the         *)
(* directory locator (findNestedRulers), the destination resolution and    *)
(* the apply pipeline of src/cli/commands/apply.ts.  Line numbers are      *)
(* those of the version of apply.ts with the three categories (commands,   *)
(* skills, subagents), src/unnamed/part_001.                               *)
(*                                                                         *)
(* File names are strings, a path is a sequence of file names relative to  *)
(* the working directory of the process (<<>> is the working directory),   *)
(* and the file system is a function from the paths that exist to "dir"    *)
(* or to the content of the file.                                          *)
(***************************************************************************)
EXTENDS Integers, Sequences, FiniteSets, TLC

VARIABLES
    fs,        \* the file system: [existing paths -> "dir" or file content]
    pre,       \* the file system as it was before the last operation
    pc,        \* position of the running command
    inName,    \* SpecBackup: the file name handed to the backup derivation
    bakName,   \* SpecBackup: the derived backup name
    syncSource, \* SpecSync: source directory of the synchronization
    syncDest,  \* SpecSync: destination directory of the synchronization
    listing,   \* order in which readdirSync lists a directory: "asc" or "desc"
    denied,    \* paths on which the operating system refuses rename and copy
    syncs,     \* SpecSync: the destination's files before and after each run
    out,       \* outcome of the last operation (thrown, log, results)
    rulerConfig, \* SpecApply: the parsed ruler.toml
    nestedFlag, \* SpecApply: the --nested flag
    platform,  \* "posix" or "win32": decides the path separator
    trace,     \* SpecApply: the synchronizations performed, in order
    rulerToml, \* SpecApply: the file .ruler/ruler.toml
    argv,      \* the command line after the name of the program
    spawned    \* the subprocesses started so far, in order

vars == <<fs, pre, pc, inName, bakName, syncSource, syncDest, listing, denied, syncs,
          out, rulerConfig, nestedFlag, platform, trace,
                   rulerToml, argv, spawned>>

(***************************************************************************)
(* Strings                                                                 *)
(***************************************************************************)
Char(s, i) == SubSeq(s, i, i)

StartsWith(s, p) == Len(p) <= Len(s) /\ SubSeq(s, 1, Len(p)) = p

EndsWith(s, p) == Len(p) <= Len(s) /\ SubSeq(s, Len(s) - Len(p) + 1, Len(s)) = p

(***************************************************************************)
(* path.extname of a file name (the last segment of destPath).  The scan   *)
(* runs from the last character to the first and keeps startDot (0: none), *)
(* and preDotState: 0 no character before the dot, -1 the leftmost         *)
(* character seen is not a dot, 1 it is a dot.                             *)
(***************************************************************************)
RECURSIVE ExtScan(_, _, _, _)
ExtScan(s, i, startDot, preDotState) ==
    IF i = 0 THEN [startDot |-> startDot, preDotState |-> preDotState]
    ELSE IF Char(s, i) = "."
         THEN IF startDot = 0 THEN ExtScan(s, i - 1, i, preDotState)
              ELSE ExtScan(s, i - 1, startDot, 1)
         ELSE IF startDot # 0 THEN ExtScan(s, i - 1, startDot, -1)
              ELSE ExtScan(s, i - 1, startDot, preDotState)

Extname(s) ==
    LET r == ExtScan(s, Len(s), 0, 0)
    IN  IF \/ r.startDot = 0
           \/ Len(s) = 0
           \/ r.preDotState = 0
           \/ (r.preDotState = 1 /\ r.startDot = Len(s) /\ r.startDot = 2)
        THEN ""
        ELSE SubSeq(s, r.startDot, Len(s))

(***************************************************************************)
(* path.basename(p, ext) of a file name: the name without the suffix ext,  *)
(* when ext is a non-empty suffix of the name and not the whole name.      *)
(***************************************************************************)
Basename(s, ext) ==
    IF ext # "" /\ Len(ext) <= Len(s)
    THEN IF ext = s THEN ""
         ELSE IF EndsWith(s, ext) THEN SubSeq(s, 1, Len(s) - Len(ext))
         ELSE s
    ELSE s

(***************************************************************************)
(* The file name of backupPath: `${fileName}.bak${fileExt}`.               *)
(***************************************************************************)
\* a backup name made by appending: report.md.bak
BackupNameAppended(n) == n \o ".bak"

\* lines 409-411
BackupName(n) ==
    LET fileName == Basename(n, Extname(n))
        fileExt  == Extname(n)
    IN  fileName \o ".bak" \o fileExt

(***************************************************************************)
(* The file system                                                         *)
(***************************************************************************)
MaxPathLen == 6   \* longest path, in segments, the file system accepts

Exists(f, p) == p \in DOMAIN f

IsDir(f, p) == p \in DOMAIN f /\ f[p] = "dir"

IsFile(f, p) == p \in DOMAIN f /\ f[p] # "dir"

Parent(p) == SubSeq(p, 1, Len(p) - 1)

Last(p) == p[Len(p)]

IsPrefix(p, q) == Len(p) <= Len(q) /\ SubSeq(q, 1, Len(p)) = p

Under(f, d) == {p \in DOMAIN f : IsPrefix(d, p) /\ p # d}

Children(f, d) == {p \in DOMAIN f : Len(p) = Len(d) + 1 /\ Parent(p) = d}

Prefixes(p) == {SubSeq(p, 1, n) : n \in 0..Len(p)}

\* f with the paths of g added or replaced
Overlay(f, g) ==
    [p \in DOMAIN f \cup DOMAIN g |-> IF p \in DOMAIN g THEN g[p] ELSE f[p]]

Without(f, ps) == [p \in DOMAIN f \ ps |-> f[p]]

\* the order of two characters, and of two file names, by character code
Alphabet == <<".", "A", "D", "E", "M", "R", "a", "b", "c", "d", "e", "g", "i", "k",
              "l", "m", "n", "o", "p", "r", "s", "t", "u", "x">>

CharRank(c) == IF \E i \in 1..Len(Alphabet) : Alphabet[i] = c
               THEN CHOOSE i \in 1..Len(Alphabet) : Alphabet[i] = c
               ELSE 0

RECURSIVE NameLess(_, _)
NameLess(a, b) ==
    IF a = "" THEN b # ""
    ELSE IF b = "" THEN FALSE
    ELSE IF Head(a) = Head(b) THEN NameLess(Tail(a), Tail(b))
    ELSE CharRank(Head(a)) < CharRank(Head(b))

RECURSIVE SortNames(_, _)
SortNames(S, order) ==
    IF S = {} THEN <<>>
    ELSE LET first == CHOOSE n \in S : \A m \in S \ {n} :
                          IF order = "asc" THEN NameLess(n, m) ELSE NameLess(m, n)
         IN  <<first>> \o SortNames(S \ {first}, order)

(***************************************************************************)
(* readdirSync(d, {withFileTypes: true}): the entries of d, each with its  *)
(* name and its type at the time of the listing.  The order is the         *)
(* operating system's: the model lists by name, ascending or descending.   *)
(***************************************************************************)
Readdir(f, d, order) ==
    LET names == SortNames({Last(p) : p \in Children(f, d)}, order)
    IN  [i \in 1..Len(names) |->
            [name |-> names[i], isDirectory |-> IsDir(f, Append(d, names[i]))]]

(***************************************************************************)
(* mkdirSync(p, {recursive: true}): fails when a segment of p is a file or *)
(* the path is longer than the file system accepts.                        *)
(***************************************************************************)
MkdirOk(f, p) ==
    /\ Len(p) <= MaxPathLen
    /\ \A q \in Prefixes(p) : Exists(f, q) => IsDir(f, q)

Mkdir(f, p) == Overlay(f, [q \in Prefixes(p) |-> "dir"])

(***************************************************************************)
(* renameSync(old, new) inside one directory: a file replaces a file, a    *)
(* directory replaces an empty directory; other clashes fail.              *)
(***************************************************************************)
RenameOk(f, old, new, deny) ==
    /\ Exists(f, old)
    /\ old \notin deny
    /\ Exists(f, new) =>
          \/ IsFile(f, old) /\ IsFile(f, new)
          \/ IsDir(f, old) /\ IsDir(f, new) /\ Under(f, new) = {}

Rename(f, old, new) ==
    LET moved == {old} \cup Under(f, old)
        kept  == Without(f, moved \cup {new})
        to(p) == new \o SubSeq(p, Len(old) + 1, Len(p))
    IN  Overlay(kept, [q \in {to(p) : p \in moved} |->
                          f[CHOOSE p \in moved : to(p) = q]])

(***************************************************************************)
(* copyFileSync(src, dst): dst gets the content of src; fails when dst is  *)
(* a directory or its parent is no directory.                              *)
(***************************************************************************)
CopyFileOk(f, src, dst, deny) ==
    /\ IsFile(f, src)
    /\ IsDir(f, Parent(dst))
    /\ ~IsDir(f, dst)
    /\ dst \notin deny

CopyFile(f, src, dst) == Overlay(f, [q \in {dst} |-> f[src]])


(***************************************************************************)
(* copyCommandsWithBackup(source, dest).  st is the running outcome: the   *)
(* file system, whether an exception is on its way out of the function,    *)
(* and the log lines and file operations so far.  deny and order are the   *)
(* environment: the refused paths and the listing order.                   *)
(***************************************************************************)
Outcome(f) == [fs |-> f, thrown |-> FALSE, log |-> <<>>]

Logged(st, ev, p, q) ==
    [st EXCEPT !.log = Append(@, [ev |-> ev, path |-> p, to |-> q])]

Throw(st, ev, p) == [Logged(st, ev, p, p) EXCEPT !.thrown = TRUE]

\* a synchronization that moves no existing destination file aside
BackupStepNoBackup(st, dest, entry, deny) == st

\* lines 407-420: move an existing destination file aside
BackupStep(st, dest, entry, deny) ==
    LET destPath   == Append(dest, entry.name)
        backupPath == Append(dest, BackupName(entry.name))
    IN  IF ~Exists(st.fs, destPath) THEN st
        ELSE IF RenameOk(st.fs, destPath, backupPath, deny)
        THEN Logged([st EXCEPT !.fs = Rename(st.fs, destPath, backupPath)],
                    "backup", destPath, backupPath)
        ELSE Logged(st, "skip", destPath, backupPath)

\* line 423: copy the new file
CopyStep(st, source, dest, entry, deny) ==
    LET sourcePath == Append(source, entry.name)
        destPath   == Append(dest, entry.name)
    IN  IF CopyFileOk(st.fs, sourcePath, destPath, deny)
        THEN Logged([st EXCEPT !.fs = CopyFile(st.fs, sourcePath, destPath)],
                    "copy", sourcePath, destPath)
        ELSE Throw(st, "copy-failed", destPath)

\* lines 416-423: `continue` after a failed backup, else the copy
CopyUnlessSkipped(st, b, source, dest, entry, deny) ==
    IF Len(b.log) > Len(st.log) /\ b.log[Len(b.log)].ev = "skip" THEN b
    ELSE CopyStep(b, source, dest, entry, deny)

\* a synchronization that copies the placeholder too
IsPlaceholderNever(n) == FALSE

\* lines 402-405: the placeholder is skipped
IsPlaceholder(n) == n = ".gitkeep"

RECURSIVE CopyCommandsWithBackup(_, _, _, _, _)
RECURSIVE SyncEntries(_, _, _, _, _, _)
RECURSIVE ListAndSync(_, _, _, _, _)

\* lines 394-425: the loop over the listed entries
SyncEntries(st, source, dest, entries, deny, order) ==
    IF entries = <<>> \/ st.thrown THEN st
    ELSE LET entry == Head(entries)
             next  ==
                IF entry.isDirectory
                THEN CopyCommandsWithBackup(st, Append(source, entry.name),
                                            Append(dest, entry.name), deny, order)
                ELSE IF IsPlaceholder(entry.name) THEN st
                ELSE CopyUnlessSkipped(st, BackupStep(st, dest, entry, deny),
                                       source, dest, entry, deny)
         IN  SyncEntries(next, source, dest, Tail(entries), deny, order)

\* line 392 and the loop: readdirSync(source) throws when source is no
\* directory
ListAndSync(st, source, dest, deny, order) ==
    IF ~IsDir(st.fs, source) THEN Throw(st, "readdir-failed", source)
    ELSE SyncEntries(st, source, dest, Readdir(st.fs, source, order), deny, order)

\* lines 386-426
CopyCommandsWithBackup(st, source, dest, deny, order) ==
    IF st.thrown THEN st
    ELSE IF ~Exists(st.fs, dest) /\ ~MkdirOk(st.fs, dest)
    THEN Throw(st, "mkdir-failed", dest)
    ELSE ListAndSync(IF Exists(st.fs, dest) THEN st
                     ELSE [st EXCEPT !.fs = Mkdir(st.fs, dest)],
                     source, dest, deny, order)


(***************************************************************************)
(* findNestedRulers(rootPath, currentPath, results): depth first over the  *)
(* listed entries; a failing readdirSync leaves results as they are.       *)
(***************************************************************************)
\* lines 358-363: the entries the loop passes over
Skipped(n) ==
    \/ StartsWith(n, ".") /\ n # ".ruler"
    \/ n = "node_modules" \/ n = "dist" \/ n = ".git"

RECURSIVE FindNestedRulers(_, _, _, _, _, _)
RECURSIVE FindEntries(_, _, _, _, _, _, _)

\* a locator in which a failing listing loses what was found before it
FindNestedRulersLosing(f, rootPath, currentPath, results, deny, order) ==
    IF ~IsDir(f, currentPath) \/ currentPath \in deny THEN <<>>
    ELSE FindEntries(f, rootPath, currentPath, Readdir(f, currentPath, order),
                     results, deny, order)

\* lines 356-374: the loop
FindEntries(f, rootPath, currentPath, entries, results, deny, order) ==
    IF entries = <<>> THEN results
    ELSE LET entry    == Head(entries)
             fullPath == Append(currentPath, entry.name)
             next     ==
                IF Skipped(entry.name) \/ ~entry.isDirectory THEN results
                ELSE IF entry.name = ".ruler" /\ fullPath # Append(rootPath, ".ruler")
                THEN Append(results, fullPath)
                ELSE FindNestedRulers(f, rootPath, fullPath, results, deny, order)
         IN  FindEntries(f, rootPath, currentPath, Tail(entries), next, deny, order)

\* lines 352-380
FindNestedRulers(f, rootPath, currentPath, results, deny, order) ==
    IF ~IsDir(f, currentPath) \/ currentPath \in deny THEN results
    ELSE FindEntries(f, rootPath, currentPath, Readdir(f, currentPath, order),
                     results, deny, order)

(***************************************************************************)
(* Paths as the strings the process handles.  The working directory is     *)
(* /w on posix and C:\w on win32; path.join puts the platform's separator  *)
(* between the segments and splits what it is given at "/" (and at "\" on  *)
(* win32).                                                                 *)
(***************************************************************************)
Sep(plat) == IF plat = "win32" THEN "\\" ELSE "/"

CwdStr(plat) == IF plat = "win32" THEN "C:\\w" ELSE "/w"

IsSep(plat, c) == c = "/" \/ (plat = "win32" /\ c = "\\")

RECURSIVE JoinSegments(_, _)
JoinSegments(plat, p) ==
    IF p = <<>> THEN "" ELSE Sep(plat) \o Head(p) \o JoinSegments(plat, Tail(p))

\* the absolute path string of the path p below the working directory
ToStr(plat, p) == CwdStr(plat) \o JoinSegments(plat, p)

\* the segments of a path string; empty segments vanish as in path.join
RECURSIVE SplitPath(_, _, _)
SplitPath(plat, str, segment) ==
    IF str = "" THEN IF segment = "" THEN <<>> ELSE <<segment>>
    ELSE IF IsSep(plat, Head(str))
         THEN (IF segment = "" THEN <<>> ELSE <<segment>>)
                  \o SplitPath(plat, Tail(str), "")
         ELSE SplitPath(plat, Tail(str), segment \o Head(str))

\* join(base, str) for a base below the working directory
Join(plat, base, str) == base \o SplitPath(plat, str, "")

\* String.prototype.replace(pattern, '') with a string pattern: the first
\* occurrence goes
ReplaceFirst(str, pattern) ==
    LET hits == {i \in 1..(Len(str) - Len(pattern) + 1) :
                    SubSeq(str, i, i + Len(pattern) - 1) = pattern}
    IN  IF pattern = "" \/ hits = {} THEN str
        ELSE LET i == CHOOSE h \in hits : \A k \in hits : h <= k
             IN  SubSeq(str, 1, i - 1) \o SubSeq(str, i + Len(pattern), Len(str))

\* replace(/\\.ruler$/, ''): a backslash, any one character and "ruler" at
\* the end of the string go
StripRulerSuffix(str) ==
    IF Len(str) >= 7 /\ EndsWith(str, "ruler") /\ Char(str, Len(str) - 6) = "\\"
    THEN SubSeq(str, 1, Len(str) - 7)
    ELSE str

\* replace(/^\//, '') and replace(/^\\/, '')
StripLeading(str, c) == IF StartsWith(str, c) THEN Tail(str) ELSE str

\* lines 316-321: the project directory of a nested .ruler directory
RelativePath(plat, nestedRulerPath) ==
    StripLeading(
        StripLeading(
            StripRulerSuffix(ReplaceFirst(ToStr(plat, nestedRulerPath), CwdStr(plat))),
            "/"),
        "\\")

NestedProjectPath(plat, cwd, nestedRulerPath) ==
    LET relativePath == RelativePath(plat, nestedRulerPath)
    IN  IF relativePath # "" THEN Join(plat, cwd, relativePath) ELSE cwd

(***************************************************************************)
(* The configuration and the destination of an agent                       *)
(***************************************************************************)
Undefined == "<undefined>"

defaultAgents == <<"cursor", "claude", "codex">>

DEFAULT_COMMAND_PATHS(agentName) ==
    CASE agentName = "cursor" -> ".cursor/commands"
      [] agentName = "claude" -> ".claude/commands"
      [] agentName = "codex"  -> ".codex/commands"
      [] OTHER                -> Undefined

DEFAULT_SKILLS_PATHS(agentName) ==
    CASE agentName = "cursor" -> ".cursor/skills"
      [] agentName = "claude" -> ".claude/skills"
      [] agentName = "codex"  -> ".codex/skills"
      [] OTHER                -> Undefined

\* a table that gives claude a subagents directory of its own
DEFAULT_SUBAGENTS_PATHS_Distinct(agentName) ==
    CASE agentName = "cursor" -> ".cursor/subagents"
      [] agentName = "claude" -> ".claude/subagents"
      [] agentName = "codex"  -> ".codex/subagents"
      [] OTHER                -> Undefined

\* lines 171-176: claude has no separate subagents directory
DEFAULT_SUBAGENTS_PATHS(agentName) ==
    CASE agentName = "cursor" -> ".cursor/subagents"
      [] agentName = "claude" -> ".claude/commands"
      [] agentName = "codex"  -> ".codex/subagents"
      [] OTHER                -> Undefined

\* agents[agentName] || {}
NoAgentConfig ==
    [enabled |-> Undefined, command_path |-> Undefined,
     skills_path |-> Undefined, subagents_path |-> Undefined]

AgentConfigOf(config, agentName) ==
    IF agentName \in DOMAIN config.agents THEN config.agents[agentName]
    ELSE NoAgentConfig

Truthy(v) == v # Undefined /\ v # ""

Or(a, b) == IF Truthy(a) THEN a ELSE b

\* agentConfig.<category>_path || DEFAULT_<CATEGORY>_PATHS[agentName]
CategoryPath(agentConfig, agentName, category) ==
    CASE category = "commands"  ->
            Or(agentConfig.command_path, DEFAULT_COMMAND_PATHS(agentName))
      [] category = "skills"    ->
            Or(agentConfig.skills_path, DEFAULT_SKILLS_PATHS(agentName))
      [] category = "subagents" ->
            Or(agentConfig.subagents_path, DEFAULT_SUBAGENTS_PATHS(agentName))

\* an apply that never skips an agent
IsDisabledNever(agentConfig) == FALSE

\* agentConfig.enabled === false
IsDisabled(agentConfig) == agentConfig.enabled = "false"

(***************************************************************************)
(* The copy stages of apply.  ap is the file system with the trace of the  *)
(* synchronizations made so far; env holds the platform, the refused paths *)
(* and the listing order.                                                  *)
(***************************************************************************)
\* the try block of an agent: the synchronization, with its outcome added
\* to the trace; an exception is caught and logged
Traced(ap, st, agentName, category, sourceDir, destPath, nestedRoot) ==
    [fs    |-> st.fs,
     trace |-> Append(ap.trace,
                 [agent |-> agentName, category |-> category,
                  nestedRoot |-> nestedRoot, source |-> sourceDir,
                  dest |-> destPath, thrown |-> st.thrown, log |-> st.log])]

SyncFor(ap, agentName, category, sourceDir, destPath, nestedRoot, env) ==
    Traced(ap,
           CopyCommandsWithBackup(Outcome(ap.fs), sourceDir, destPath,
                                  env.denied, env.listing),
           agentName, category, sourceDir, destPath, nestedRoot)

\* a loop over defaultAgents that an exception of one agent leaves
RECURSIVE AgentLoopStopping(_, _, _, _, _, _, _, _)
AgentLoopStopping(ap, agentNames, config, category, sourceDir, base, nestedRoot, env) ==
    IF agentNames = <<>> THEN ap
    ELSE LET agentName   == Head(agentNames)
             agentConfig == AgentConfigOf(config, agentName)
             path        == CategoryPath(agentConfig, agentName, category)
             next        ==
                IF IsDisabled(agentConfig) \/ ~Truthy(path) THEN ap
                ELSE SyncFor(ap, agentName, category, sourceDir,
                             Join(env.platform, base, path), nestedRoot, env)
         IN  IF next.trace # <<>> /\ next.trace[Len(next.trace)].thrown
                   /\ Len(next.trace) > Len(ap.trace)
             THEN next
             ELSE AgentLoopStopping(next, Tail(agentNames), config, category,
                                    sourceDir, base, nestedRoot, env)

\* the loop over defaultAgents of copyCommands, copySkills, copySubagents
\* (base is the working directory) and of their nested counterparts
RECURSIVE AgentLoop(_, _, _, _, _, _, _, _)
AgentLoop(ap, agentNames, config, category, sourceDir, base, nestedRoot, env) ==
    IF agentNames = <<>> THEN ap
    ELSE LET agentName   == Head(agentNames)
             agentConfig == AgentConfigOf(config, agentName)
             path        == CategoryPath(agentConfig, agentName, category)
             next        ==
                IF IsDisabled(agentConfig) \/ ~Truthy(path) THEN ap
                ELSE SyncFor(ap, agentName, category, sourceDir,
                             Join(env.platform, base, path), nestedRoot, env)
         IN  AgentLoop(next, Tail(agentNames), config, category, sourceDir, base,
                       nestedRoot, env)

\* copyNestedCommands, copyNestedSkills, copyNestedSubagents: the loop over
\* the nested .ruler directories
RECURSIVE NestedLoop(_, _, _, _, _, _)
NestedLoop(ap, nestedRulers, cwd, config, category, env) ==
    IF nestedRulers = <<>> THEN ap
    ELSE LET nestedRulerPath   == Head(nestedRulers)
             next ==
                IF ~Exists(ap.fs, Append(nestedRulerPath, category)) THEN ap
                ELSE AgentLoop(ap, defaultAgents, config, category,
                               Append(nestedRulerPath, category),
                               NestedProjectPath(env.platform, cwd, nestedRulerPath),
                               <<nestedRulerPath>>, env)
         IN  NestedLoop(next, Tail(nestedRulers), cwd, config, category, env)

CopyNested(ap, cwd, config, category, env) ==
    NestedLoop(ap, FindNestedRulers(ap.fs, cwd, cwd, <<>>, env.denied, env.listing),
               cwd, config, category, env)

\* `if (nested) await copyNested...(cwd, config)`
ThenNested(ap, cwd, config, nestedOpt, category, env) ==
    IF nestedOpt THEN CopyNested(ap, cwd, config, category, env) ELSE ap

\* copyCommands, copySkills, copySubagents: nothing happens, the nested part
\* included, when the root .ruler holds no directory of the category
CopyCategory(ap, cwd, config, nestedOpt, category, env) ==
    LET rulerCategoryPath == cwd \o <<".ruler", category>>
    IN  IF ~Exists(ap.fs, rulerCategoryPath) THEN ap
        ELSE ThenNested(AgentLoop(ap, defaultAgents, config, category,
                                  rulerCategoryPath, cwd, <<>>, env),
                        cwd, config, nestedOpt, category, env)

(***************************************************************************)
(* Subprocesses.  spawn(command, args, {shell: true}) hands the shell the  *)
(* command and the arguments joined by spaces; the shell splits the line   *)
(* at spaces again, so the program started receives the words of the line. *)
(***************************************************************************)
RECURSIVE JoinWords(_)
JoinWords(words) ==
    IF words = <<>> THEN ""
    ELSE IF Len(words) = 1 THEN Head(words)
    ELSE Head(words) \o " " \o JoinWords(Tail(words))

RECURSIVE ShellWords(_, _)
ShellWords(line, word) ==
    IF line = "" THEN IF word = "" THEN <<>> ELSE <<word>>
    ELSE IF Head(line) = " "
         THEN (IF word = "" THEN <<>> ELSE <<word>>) \o ShellWords(Tail(line), "")
         ELSE ShellWords(Tail(line), word \o Head(line))

Spawn(command, args) ==
    [command  |-> command,
     args     |-> args,
     received |-> Tail(ShellWords(JoinWords(<<command>> \o args), ""))]

\* Array.prototype.includes
Includes(sq, x) == \E i \in 1..Len(sq) : sq[i] = x

(***************************************************************************)
(* Values of the variables a specification does not use                    *)
(***************************************************************************)
EmptyFs == [p \in {<<>>} |-> "dir"]

NoConfig == [agents |-> <<>>]

IdleNames == inName = "" /\ bakName = ""

IdleSync == syncSource = <<>> /\ syncDest = <<>> /\ syncs = <<>>

\* no ruler.toml in .ruler
NoToml == [state |-> "missing", config |-> NoConfig]

IdleConfig == rulerConfig = NoConfig /\ nestedFlag = FALSE /\ trace = <<>>
              /\ rulerToml = NoToml

IdleProcess == argv = <<>> /\ spawned = <<>>

IdleApply == IdleConfig /\ IdleProcess /\ platform = "posix"

\* a file system made of the given [path -> node] pieces, with every
\* directory on the way to a piece
RECURSIVE Assemble(_)
Assemble(pieces) ==
    IF pieces = {} THEN EmptyFs
    ELSE LET g == CHOOSE x \in pieces : TRUE
         IN  Overlay(Overlay(Assemble(pieces \ {g}),
                             [q \in UNION {Prefixes(Parent(p)) : p \in DOMAIN g} |-> "dir"]),
                     g)


(***************************************************************************)
(* SpecBackup: the backup name of every file name over a small alphabet    *)
(***************************************************************************)
MaxNameLen == 4

NameChars == {"a", "b", "."}

RECURSIVE Words(_)
Words(n) == IF n = 0 THEN {""}
            ELSE {w \o c : w \in Words(n - 1), c \in NameChars}

\* the names a directory entry can have
FileNames ==
    ((UNION {Words(n) : n \in 1..MaxNameLen}) \ {".", ".."})
        \cup {"report.md", "README", "a.b.md", ".gitkeep"}

InitBackup ==
    /\ inName \in FileNames
    /\ bakName = ""
    /\ pc = "ready"
    /\ fs = EmptyFs /\ pre = EmptyFs /\ listing = "asc" /\ denied = {}
    /\ out = Outcome(EmptyFs)
    /\ IdleSync /\ IdleApply

DeriveBackup ==
    /\ pc = "ready"
    /\ bakName' = BackupName(inName)
    /\ pc' = "done"
    /\ UNCHANGED <<fs, pre, inName, syncSource, syncDest, listing, denied, syncs,
                   out, rulerConfig, nestedFlag, platform, trace,
                   rulerToml, argv, spawned>>

NextBackup == DeriveBackup

SpecBackup == InitBackup /\ [][NextBackup]_vars


(***************************************************************************)
(* SpecSync: copyCommandsWithBackup run up to MaxSyncs times from          *)
(* .ruler/commands into .cursor/commands, for a family of source and       *)
(* destination trees.                                                      *)
(***************************************************************************)
MaxSyncs == 3

RulerCommands == <<".ruler", "commands">>

CursorCommands == <<".cursor", "commands">>

SourceContent(n) ==
    CASE n = "greet.md"     -> "src greet"
      [] n = "greet.bak.md" -> "src greet.bak"
      [] n = "README"       -> "src readme"
      [] OTHER              -> ""

DestContent(n) ==
    CASE n = "greet.md"     -> "old greet"
      [] n = "greet.bak.md" -> "old greet.bak"
      [] n = "README"       -> "old readme"
      [] OTHER              -> "old other"

SubContent(n) == IF n = ".gitkeep" THEN "" ELSE "sub " \o n

ContentOf(kind, n) ==
    CASE kind = "source" -> SourceContent(n)
      [] kind = "dest"   -> DestContent(n)
      [] kind = "sub"    -> SubContent(n)

\* the pieces [dir/n -> content of n] for the names n of ns
Files(dir, ns, kind) ==
    [p \in {Append(dir, n) : n \in ns} |-> ContentOf(kind, Last(p))]

\* the source trees: any of four files at the top, and a directory sub
\* that is absent, holds the placeholder only, or holds a file
SourceTrees ==
    {Assemble({[p \in {RulerCommands} |-> "dir"],
               Files(RulerCommands, top, "source"),
               Files(Append(RulerCommands, "sub"), sub, "sub")}) :
        top \in SUBSET {"greet.md", "greet.bak.md", "README", ".gitkeep"},
        sub \in {{}, {".gitkeep"}, {"greet.md"}}}

\* the destination trees: absent, an empty directory, or a directory with
\* other.md, any of three files the source may hold too, and sub absent, a
\* directory holding a file, or a file; and one where a directory stands
\* at the backup name of greet.md
DestTrees ==
    {EmptyFs, Assemble({[p \in {CursorCommands} |-> "dir"]}),
     Assemble({Files(CursorCommands, {"greet.md", "README"}, "dest"),
               [p \in {Append(CursorCommands, "greet.bak.md")} |-> "dir"]})} \cup
    {Assemble({Files(CursorCommands, top \cup {"other.md"}, "dest"), sub}) :
        top \in SUBSET {"greet.md", "greet.bak.md", "README"},
        sub \in {[p \in {} |-> "dir"],
                 Files(Append(CursorCommands, "sub"), {"greet.md"}, "sub"),
                 Files(CursorCommands, {"sub"}, "dest")}}

InitSync ==
    /\ \E s \in SourceTrees, d \in DestTrees : fs = Overlay(s, d)
    /\ pre = fs
    /\ pc = "ready"
    /\ syncSource = RulerCommands
    /\ syncDest = CursorCommands
    /\ listing \in {"asc", "desc"}
    /\ denied \in {{}, {Append(CursorCommands, "greet.md")}}
    /\ syncs = <<>>
    /\ out = Outcome(fs)
    /\ IdleNames /\ IdleApply

FilesUnder(f, d) == {p \in Under(f, d) : IsFile(f, p)}

DirsUnder(f, d) == {p \in Under(f, d) : IsDir(f, p)}

Failed(st) == st.thrown \/ \E i \in 1..Len(st.log) : st.log[i].ev = "skip"

Sync ==
    /\ pc = "ready"
    /\ Len(syncs) < MaxSyncs
    /\ \E st \in {CopyCommandsWithBackup(Outcome(fs), syncSource, syncDest,
                                         denied, listing)} :
           /\ fs' = st.fs
           /\ out' = st
           /\ syncs' = Append(syncs, [before |-> FilesUnder(fs, syncDest),
                                      files  |-> FilesUnder(st.fs, syncDest),
                                      failed |-> Failed(st)])
    /\ pre' = fs
    /\ UNCHANGED <<pc, inName, bakName, syncSource, syncDest, listing, denied,
                   rulerConfig, nestedFlag, platform, trace,
                   rulerToml, argv, spawned>>

NextSync == Sync

SpecSync == InitSync /\ [][NextSync]_vars

(***************************************************************************)
(* copyCommandsWithBackup with a destination that an override of ruler.toml *)
(* puts inside the source directory (command_path = ".ruler/commands/out"), *)
(* at the source directory itself, or at the default place, where a         *)
(* directory README holding a file may stand.                               *)
(***************************************************************************)
InsideDests == {Append(RulerCommands, "out"), RulerCommands, CursorCommands}

InitInside ==
    /\ \E s \in SourceTrees,
          d \in {EmptyFs,
                 Assemble({Files(Append(CursorCommands, "README"), {"x.md"}, "dest")})} :
          fs = Overlay(s, d)
    /\ pre = fs
    /\ pc = "ready"
    /\ syncSource = RulerCommands
    /\ syncDest \in InsideDests
    /\ listing \in {"asc", "desc"}
    /\ denied = {}
    /\ syncs = <<>>
    /\ out = Outcome(fs)
    /\ IdleNames /\ IdleApply

SpecInside == InitInside /\ [][NextSync]_vars

(***************************************************************************)
(* SpecFind: findNestedRulers(cwd) over a family of directory trees        *)
(***************************************************************************)
\* the directories, and the one file named .ruler, a tree may hold
FindCandidates ==
    { [p \in {<<".ruler", "commands">>} |-> "dir"],
      [p \in {<<".ruler", "commands", ".ruler">>} |-> "dir"],
      [p \in {<<"pkg", ".ruler">>} |-> "dir"],
      [p \in {<<"pkg", ".ruler", "sub", ".ruler">>} |-> "dir"],
      [p \in {<<"pkg", "web", ".ruler">>} |-> "dir"],
      [p \in {<<"node_modules", "m", ".ruler">>} |-> "dir"],
      [p \in {<<"dist", ".ruler">>} |-> "dir"],
      [p \in {<<".git", ".ruler">>} |-> "dir"],
      [p \in {<<".hidden", "x", ".ruler">>} |-> "dir"],
      [p \in {<<"app", ".ruler">>} |-> "not a directory"] }

InitFind ==
    /\ \E pieces \in SUBSET FindCandidates : fs = Assemble(pieces)
    /\ pre = fs
    /\ pc = "ready"
    /\ listing \in {"asc", "desc"}
    /\ denied \in {{}, {<<"pkg">>}, {<<"pkg", "web">>}}
    /\ out = [results |-> <<>>]
    /\ IdleNames /\ IdleSync /\ IdleApply

Find ==
    /\ pc = "ready"
    /\ out' = [results |-> FindNestedRulers(fs, <<>>, <<>>, <<>>, denied, listing)]
    /\ pc' = "done"
    /\ UNCHANGED <<fs, pre, inName, bakName, syncSource, syncDest, listing, denied,
                   syncs, rulerConfig, nestedFlag, platform, trace,
                   rulerToml, argv, spawned>>

NextFind == Find

SpecFind == InitFind /\ [][NextFind]_vars

(***************************************************************************)
(* SpecApply: one run of `tkhrn-ruler apply [--nested]` in the working     *)
(* directory, for a family of configurations and of project trees.  The    *)
(* external ruler tool is opaque: it closes with a code or fails to start, *)
(* and the model leaves the file system as it is across it.                *)
(***************************************************************************)
Categories == {"commands", "skills", "subagents"}

AgentNames == {"cursor", "claude", "codex"}

PathKeys == {"command_path", "skills_path", "subagents_path"}

\* the configuration with the given enabled flags and one path override
ConfigWith(enabled, agentName, key, value) ==
    [agents |->
        [a \in AgentNames |->
            [k \in {"enabled"} \cup PathKeys |->
                IF k = "enabled" THEN enabled[a]
                ELSE IF a = agentName /\ k = key THEN value
                ELSE Undefined]]]

OverrideValues == {"", "out/cmds", ".claude/commands", ".claude/commands/sub"}

Configs ==
    {ConfigWith(enabled, agentName, key, value) :
        enabled \in [AgentNames -> {Undefined, "true", "false"}],
        agentName \in AgentNames, key \in PathKeys, value \in OverrideValues}
    \cup {ConfigWith(enabled, "cursor", "command_path", Undefined) :
            enabled \in [AgentNames -> {Undefined, "true", "false"}]}

\* a configuration root below project with a file greet.md in each of the
\* given category directories
RulerRoot(project, label, cats) ==
    Overlay([p \in {Append(project, ".ruler")} |-> "dir"],
            [p \in {project \o <<".ruler", c, "greet.md">> : c \in cats} |->
                label \o " " \o p[Len(p) - 1]])

FullProject ==
    Assemble({RulerRoot(<<>>, "root", Categories),
              RulerRoot(<<"pkg">>, "pkg", Categories)})

ProjectTrees ==
    {EmptyFs} \cup
    {Assemble({RulerRoot(<<>>, "root", rootCats), pkg, lib, old}) :
        rootCats \in SUBSET Categories,
        pkg \in {[p \in {} |-> "dir"],
                 RulerRoot(<<"pkg">>, "pkg", {}),
                 RulerRoot(<<"pkg">>, "pkg", {"commands"}),
                 RulerRoot(<<"pkg">>, "pkg", Categories)},
        lib \in {[p \in {} |-> "dir"],
                 RulerRoot(<<"lib", "web">>, "lib", {"commands"})},
        old \in {[p \in {} |-> "dir"],
                 [p \in {<<".claude", "commands", "greet.md">>} |-> "old greet"]}}

\* the command lines of apply
ApplyArgvs ==
    {<<"apply">>, <<"apply", "--nested">>, <<"apply", "--dry-run">>,
     <<"apply", "--nested", "--dry-run">>}

\* ruler.toml with the given settings
Toml(config) == [state |-> "valid", config |-> config]

ClaudeDisabled ==
    ConfigWith([a \in AgentNames |-> IF a = "claude" THEN "false" ELSE Undefined],
               "cursor", "command_path", Undefined)

\* a ruler.toml with claude's settings that the parser refuses
BrokenToml == [state |-> "unparseable", config |-> ClaudeDisabled]

\* the copies the operating system refuses
DeniedSets ==
    {{}, {<<".cursor", "commands", "greet.md">>},
     {<<".claude", "commands", "greet.md">>, <<".codex", "skills", "greet.md">>,
      <<"pkg", ".ruler", ".cursor", "commands", "greet.md">>},
     {<<".cursor", c, "greet.md">> : c \in Categories}
        \cup {<<".claude", c, "greet.md">> : c \in Categories}
        \cup {<<".codex", c, "greet.md">> : c \in Categories}}

\* an apply that goes on without .ruler
RulerMissingNever(f) == FALSE

\* lines 184-188
RulerMissing(f) == ~Exists(f, <<".ruler">>)

InitApply ==
    /\ \/ /\ fs = FullProject
          /\ rulerToml \in {Toml(c) : c \in Configs}
          /\ listing = "asc"
          /\ \E run \in {<<1, "posix">>, <<2, "posix">>, <<2, "win32">>} :
                 /\ argv = IF run[1] = 1 THEN <<"apply">> ELSE <<"apply", "--nested">>
                 /\ platform = run[2]
          /\ denied = {}
       \/ /\ fs \in ProjectTrees
          /\ rulerToml \in {Toml(NoConfig), Toml(ClaudeDisabled)}
          /\ listing \in {"asc", "desc"}
          /\ argv \in {<<"apply">>, <<"apply", "--nested">>}
          /\ platform \in {"posix", "win32"}
          /\ denied = {}
       \/ /\ fs \in {EmptyFs, FullProject,
                      Assemble({RulerRoot(<<>>, "root", {"commands", "skills"})})}
          /\ rulerToml \in {NoToml, BrokenToml, Toml(NoConfig), Toml(ClaudeDisabled)}
          /\ listing = "asc"
          /\ argv \in ApplyArgvs
          /\ platform = "posix"
          /\ denied \in DeniedSets
    \* ruler.toml is a file of .ruler
    /\ RulerMissing(fs) => rulerToml = NoToml
    \* index.ts, line 29
    /\ nestedFlag = Includes(argv, "--nested")
    /\ rulerConfig = NoConfig
    /\ pre = fs
    /\ pc = "start"
    /\ trace = <<>>
    /\ spawned = <<>>
    /\ out = [exit |-> "running", tomlRead |-> FALSE, ruler |-> "none"]
    /\ IdleNames /\ IdleSync

Env == [platform |-> platform, denied |-> denied, listing |-> listing]

\* a reading that takes the settings of any ruler.toml text
ParsedConfigAnyway(toml) == toml.config

\* lines 190-199: the configuration is that of ruler.toml when the file
\* exists and parses, else it stays empty
ParsedConfig(toml) == IF toml.state = "valid" THEN toml.config ELSE NoConfig

\* lines 221-225: the arguments runRulerApply gives ruler
RulerApplyArgs(nested) ==
    <<"apply">> \o (IF nested THEN <<"--nested">> ELSE <<>>)

\* apply, lines 178-203, up to the await of the ruler subprocess: without
\* .ruler the process exits with code 1; else ruler.toml is read when it
\* exists and ruler is started
ApplyStart ==
    /\ pc = "start"
    /\ IF RulerMissing(fs)
       THEN /\ pc' = "exit"
            /\ out' = [out EXCEPT !.exit = "1"]
            /\ UNCHANGED <<rulerConfig, spawned>>
       ELSE /\ pc' = "tool"
            /\ rulerConfig' = ParsedConfig(rulerToml)
            /\ out' = [out EXCEPT !.tomlRead = rulerToml.state # "missing"]
            /\ spawned' = Append(spawned, Spawn("ruler", RulerApplyArgs(nestedFlag)))
    /\ UNCHANGED <<fs, pre, inName, bakName, syncSource, syncDest, listing, denied,
                   syncs, nestedFlag, platform, trace, rulerToml, argv>>

\* an apply that goes on to the copy stages whatever code ruler ended with
AfterRulerCloseAlways(code) == "commands"

\* lines 242-248: code 0 resolves the promise and apply goes on to the copy
\* stages, another code rejects it
AfterRulerClose(code) == IF code = 0 THEN "commands" ELSE "rejected"

\* runRulerApply, child.on('close')
RulerClose ==
    /\ pc = "tool"
    /\ \E code \in {0, 1} :
          /\ pc' = AfterRulerClose(code)
          /\ out' = [out EXCEPT !.ruler = IF code = 0 THEN "0" ELSE "1",
                                !.exit = IF pc' = "rejected" THEN "rejected" ELSE @]
    /\ UNCHANGED <<fs, pre, inName, bakName, syncSource, syncDest, listing, denied,
                   syncs, rulerConfig, nestedFlag, platform, trace,
                   rulerToml, argv, spawned>>

\* runRulerApply, child.on('error'): the promise rejects
RulerError ==
    /\ pc = "tool"
    /\ pc' = "rejected"
    /\ out' = [out EXCEPT !.ruler = "error", !.exit = "rejected"]
    /\ UNCHANGED <<fs, pre, inName, bakName, syncSource, syncDest, listing, denied,
                   syncs, rulerConfig, nestedFlag, platform, trace,
                   rulerToml, argv, spawned>>

\* an apply that reports the failures of its synchronizations in its
\* exit code
ApplyExitByFailures(tr) ==
    IF \E i \in 1..Len(tr) : tr[i].thrown THEN "1" ELSE "0"

\* apply, lines 216-218: after the last stage the success line is printed
\* and apply returns, whatever the synchronizations logged; the process
\* then ends with code 0
ApplyExit(tr) == "0"

\* one copy stage of apply: the whole of copyCommands, copySkills or
\* copySubagents, its nested part included
Stage(category, after) ==
    /\ \E ap \in {CopyCategory([fs |-> fs, trace |-> trace], <<>>, rulerConfig,
                               nestedFlag, category, Env)} :
          /\ fs' = ap.fs
          /\ trace' = ap.trace
          /\ out' = IF after = "done" THEN [out EXCEPT !.exit = ApplyExit(ap.trace)]
                                      ELSE out
    /\ pc' = after
    /\ UNCHANGED <<pre, inName, bakName, syncSource, syncDest, listing, denied,
                   syncs, rulerConfig, nestedFlag, platform, rulerToml, argv,
                   spawned>>

\* apply, line 206
CopyCommands ==
    /\ pc = "commands"
    /\ Stage("commands", "skills")

\* apply, line 210
CopySkills ==
    /\ pc = "skills"
    /\ Stage("skills", "subagents")

\* apply, line 214
CopySubagents ==
    /\ pc = "subagents"
    /\ Stage("subagents", "done")

NextApply ==
    \/ ApplyStart
    \/ RulerClose
    \/ RulerError
    \/ CopyCommands
    \/ CopySkills
    \/ CopySubagents

SpecApply == InitApply /\ [][NextApply]_vars

\* apply, lines 178-218, as the positions it passes: the order of its
\* statements and awaits.  Every step of NextApply is such a step, and
\* where such a step is possible a step of NextApply is.
ApplyAdvances ==
    \/ pc = "start"     /\ pc' \in {"exit", "tool"}
    \/ pc = "tool"      /\ pc' \in {"commands", "rejected"}
    \/ pc = "commands"  /\ pc' = "skills"
    \/ pc = "skills"    /\ pc' = "subagents"
    \/ pc = "subagents" /\ pc' = "done"

\* a statement that is due is executed, and the event loop delivers the end
\* of the ruler process: apply does not stay for ever at a position it can
\* leave
SpecApplyFair == SpecApply /\ WF_pc(ApplyAdvances)

(***************************************************************************)
(* init (src/cli/commands/init.ts, src/unnamed/part_000; the line numbers  *)
(* of this section are those of part_000).  The ruleset degit downloads is *)
(* a tree of its own; st is the running outcome of the merge as in         *)
(* copyCommandsWithBackup.                                                 *)
(***************************************************************************)
\* String.prototype.includes
Contains(str, sub) ==
    \E i \in 1..(Len(str) - Len(sub) + 1) : SubSeq(str, i, i + Len(sub) - 1) = sub

IsSpace(c) == c = " " \/ c = "\n" \/ c = "\t"

\* String.prototype.trim
RECURSIVE TrimStart(_)
TrimStart(str) ==
    IF str # "" /\ IsSpace(Head(str)) THEN TrimStart(Tail(str)) ELSE str

RECURSIVE TrimEnd(_)
TrimEnd(str) ==
    IF str # "" /\ IsSpace(Char(str, Len(str)))
    THEN TrimEnd(SubSeq(str, 1, Len(str) - 1))
    ELSE str

Trim(str) == TrimEnd(TrimStart(str))

\* lines 127-133
additions ==
    "\n# Agent Handover Context\n.handover/\n\n# MCP tokens\n.env.mcp.local\n"

GitignorePath == <<".gitignore">>

\* an update that appends whatever the file holds
AlreadyConfiguredNever(content) == FALSE

\* line 138
AlreadyConfigured(content) == Contains(content, ".handover/")

\* lines 135-147: the content of .gitignore after updateGitignore, given
\* the content before
GitignoreAfter(content) ==
    IF AlreadyConfigured(content) THEN content ELSE content \o additions

\* updateGitignore, lines 125-148; readFileSync throws on a directory
UpdateGitignore(st) ==
    IF ~Exists(st.fs, GitignorePath)
    THEN [st EXCEPT !.fs = Overlay(@, [p \in {GitignorePath} |-> Trim(additions) \o "\n"])]
    ELSE IF IsDir(st.fs, GitignorePath) THEN Throw(st, "read-failed", GitignorePath)
    ELSE [st EXCEPT !.fs = Overlay(@, [p \in {GitignorePath} |->
                                          GitignoreAfter(st.fs[GitignorePath])])]

\* lines 151-161
EnvTemplate ==
    "# MCP Server Tokens\n# Copy this file to .env.mcp.local and add your tokens\n\n"
        \o "# Figma - Design token extraction\nFIGMA_ACCESS_TOKEN=\n\n"
        \o "# Notion - Documentation access\nNOTION_API_KEY=\n"

EnvPath == <<".env.mcp.example">>

\* createEnvTemplate, lines 150-163
CreateEnvTemplate(f) == Overlay(f, [p \in {EnvPath} |-> EnvTemplate])

RulerDir == <<".ruler">>

\* the tree of REPO/.ruler that degit downloads
Downloaded ==
    Assemble({[p \in {<<"AGENTS.md">>} |-> "new agents"],
              [p \in {<<"ruler.toml">>} |-> "new toml"],
              [p \in {<<"commands", "greet.md">>} |-> "new greet"]})

\* the file of REPO/.env.mcp.example
DownloadedEnv == "FIGMA_ACCESS_TOKEN=\n"

\* the path below dst that the path q below src is copied to
Moved(src, dst, q) == dst \o SubSeq(q, Len(src) + 1, Len(q))

\* f with the tree of t at src put at dst, files replaced
Graft(f, t, src, dst) ==
    Overlay(f, [p \in {Moved(src, dst, q) : q \in {r \in DOMAIN t : IsPrefix(src, r)}} |->
                   t[Moved(dst, src, p)]])

\* cpSync(src, dst, {recursive: true}) from the tree t: a directory is not
\* copied onto a file nor a file onto a directory
CpOk(f, t, src, dst) ==
    /\ IsDir(f, Parent(dst))
    /\ \A q \in {r \in DOMAIN t : IsPrefix(src, r)} :
          Exists(f, Moved(src, dst, q)) =>
              (IsDir(f, Moved(src, dst, q)) <=> IsDir(t, q))

\* line 43: file.replace(/\.md$/, '.bak.md')
MergeBackupName(file) ==
    IF EndsWith(file, ".md") THEN SubSeq(file, 1, Len(file) - 3) \o ".bak.md"
    ELSE file

\* line 41
NeedsBackup(f, file) ==
    Exists(f, Append(RulerDir, file)) /\ EndsWith(file, ".md")

\* a merge that goes on after a failed rename
MergeBackupGoesOn(st, file, deny) == st

\* lines 41-48: renameSync throws into the catch of line 60
MergeBackup(st, file, deny) ==
    IF ~NeedsBackup(st.fs, file) THEN st
    ELSE IF RenameOk(st.fs, Append(RulerDir, file),
                     Append(RulerDir, MergeBackupName(file)), deny)
    THEN Logged([st EXCEPT !.fs = Rename(@, Append(RulerDir, file),
                                         Append(RulerDir, MergeBackupName(file)))],
                "backup", Append(RulerDir, file),
                Append(RulerDir, MergeBackupName(file)))
    ELSE Throw(st, "rename-failed", Append(RulerDir, file))

\* lines 50-52
MergeCopy(st, file) ==
    IF st.thrown THEN st
    ELSE IF CpOk(st.fs, Downloaded, <<file>>, Append(RulerDir, file))
    THEN Logged([st EXCEPT !.fs = Graft(@, Downloaded, <<file>>, Append(RulerDir, file))],
                "copy", <<file>>, Append(RulerDir, file))
    ELSE Throw(st, "copy-failed", Append(RulerDir, file))

\* lines 37-53: the loop over the downloaded entries
RECURSIVE MergeEntries(_, _, _)
MergeEntries(st, entries, deny) ==
    IF entries = <<>> \/ st.thrown THEN st
    ELSE MergeEntries(MergeCopy(MergeBackup(st, Head(entries).name, deny),
                                Head(entries).name),
                      Tail(entries), deny)

\* lines 25-59, after degit has succeeded: the merge into an existing
\* .ruler, or the .ruler degit has written
AfterFetch(st, rulerExists, deny, order) ==
    IF rulerExists
    THEN MergeEntries(st, Readdir(Downloaded, <<>>, order), deny)
    ELSE [st EXCEPT !.fs = Graft(@, Downloaded, <<>>, RulerDir)]

(***************************************************************************)
(* SpecInit: one run of `tkhrn-ruler init [--skip-env] [--skip-gitignore]` *)
(* in a family of projects.  degit and ruler are opaque subprocesses that  *)
(* succeed or fail; trace holds the outcome of each step.                  *)
(***************************************************************************)
InitArgvs ==
    {<<"init">>, <<"init", "--skip-env">>, <<"init", "--skip-gitignore">>,
     <<"init", "--skip-env", "--skip-gitignore">>}

\* the content of a file of the project before init
MyContent(p) == "my " \o Last(p)

\* the projects: without .ruler, or with a .ruler holding any of a rule
\* file, an earlier backup of it, a note, a configuration and a commands
\* entry that is a directory with a command or a plain file; .gitignore is
\* absent, foreign or already configured
InitTrees ==
    {Assemble({[p \in {GitignorePath} |-> "node_modules\n"]}), EmptyFs}
    \cup
    {Assemble({[p \in {RulerDir} |-> "dir"],
               [p \in {Append(RulerDir, n) : n \in top} |-> MyContent(p)],
               cmds, ignore}) :
        top \in SUBSET {"AGENTS.md", "AGENTS.bak.md", "notes.md", "ruler.toml"},
        cmds \in {[p \in {} |-> "dir"],
                  [p \in {<<".ruler", "commands", "greet.md">>} |-> MyContent(p)],
                  [p \in {<<".ruler", "commands">>} |-> MyContent(p)]},
        ignore \in {[p \in {} |-> "dir"],
                    [p \in {GitignorePath} |-> "node_modules\n"],
                    [p \in {GitignorePath} |-> "dist\n.handover/\n"]}}

InitInit ==
    /\ fs \in InitTrees
    /\ pre = fs
    /\ pc = "start"
    /\ argv \in InitArgvs
    /\ listing \in {"asc", "desc"}
    /\ denied \in {{}, {<<".ruler", "AGENTS.md">>}}
    /\ platform = "posix"
    /\ spawned = <<>>
    /\ trace = <<>>
    /\ out = [exit |-> "running"]
    /\ rulerConfig = NoConfig /\ nestedFlag = FALSE /\ rulerToml = NoToml
    /\ IdleNames /\ IdleSync

\* lines 15-30 and 57: degit is started, into a temporary directory when
\* .ruler exists
InitStart ==
    /\ pc = "start"
    /\ spawned' = Append(spawned,
          Spawn("npx", IF Exists(fs, RulerDir)
                       THEN <<"degit", "REPO/.ruler", "TMP", "--force">>
                       ELSE <<"degit", "REPO/.ruler", ".ruler">>))
    /\ pc' = "fetch"
    /\ UNCHANGED <<fs, pre, inName, bakName, syncSource, syncDest, listing, denied,
                   syncs, out, rulerConfig, nestedFlag, platform, trace, rulerToml,
                   argv>>

\* lines 79-82: step 3
GitignoreStep(st, args) ==
    IF Includes(args, "--skip-gitignore") THEN st ELSE UpdateGitignore(st)

\* the process after a step: an exception that nothing catches ends it
Crashed(st) == st.thrown

\* lines 79-88, from step 3 to the await of `ruler init`
ToRulerInit(st) ==
    /\ fs' = st.fs
    /\ IF Crashed(st)
       THEN /\ pc' = "crashed"
            /\ out' = [out EXCEPT !.exit = "rejected"]
            /\ UNCHANGED spawned
       ELSE /\ pc' = "rulerinit"
            /\ out' = out
            /\ spawned' = Append(spawned, Spawn("ruler", <<"init">>))

\* lines 60-88, after the try block of step 1: exit 1 when it threw, else
\* step 2 is started, or steps 3 and 4 when --skip-env is given
AfterDownload(st, outcome) ==
    IF st.thrown
    THEN /\ fs' = st.fs
         /\ pc' = "exit"
         /\ out' = [out EXCEPT !.exit = "1"]
         /\ trace' = Append(trace, outcome)
         /\ UNCHANGED spawned
    ELSE /\ trace' = Append(trace, outcome)
         /\ IF Includes(argv, "--skip-env")
            THEN ToRulerInit(GitignoreStep(st, argv))
            ELSE /\ fs' = st.fs
                 /\ pc' = "env"
                 /\ out' = out
                 /\ spawned' = Append(spawned,
                       Spawn("npx", <<"degit", "REPO/.env.mcp.example",
                                      ".env.mcp.example", "--force">>))

\* runCommand of line 30 or 57 has settled: rejected (degit failed or did
\* not start) or resolved, and then the rest of the try block
FetchClose ==
    /\ pc = "fetch"
    /\ \E ok \in BOOLEAN :
          IF ~ok
          THEN AfterDownload(Throw(Outcome(fs), "fetch-failed", RulerDir),
                             "fetch-failed")
          ELSE \E st \in {AfterFetch(Outcome(fs), Exists(pre, RulerDir), denied,
                                     listing)} :
                  AfterDownload(st, IF st.thrown THEN "merge-failed" ELSE "fetch-ok")
    /\ UNCHANGED <<pre, inName, bakName, syncSource, syncDest, listing, denied,
                   syncs, rulerConfig, nestedFlag, platform, rulerToml, argv>>

\* runCommand of line 70 has settled: the downloaded file, or the template
\* written by createEnvTemplate; then steps 3 and 4
EnvClose ==
    /\ pc = "env"
    /\ \E ok \in BOOLEAN :
          /\ trace' = Append(trace, IF ok THEN "env-ok" ELSE "env-failed")
          /\ ToRulerInit(GitignoreStep(
                 Outcome(IF ok THEN Overlay(fs, [p \in {EnvPath} |-> DownloadedEnv])
                         ELSE CreateEnvTemplate(fs)), argv))
    /\ UNCHANGED <<pre, inName, bakName, syncSource, syncDest, listing, denied,
                   syncs, rulerConfig, nestedFlag, platform, rulerToml, argv>>

\* runCommand of line 88 has settled: init ends the same either way
RulerInitClose ==
    /\ pc = "rulerinit"
    /\ \E ok \in BOOLEAN :
          trace' = Append(trace, IF ok THEN "rulerinit-ok" ELSE "rulerinit-failed")
    /\ pc' = "done"
    /\ out' = [out EXCEPT !.exit = "0"]
    /\ UNCHANGED <<fs, pre, inName, bakName, syncSource, syncDest, listing, denied,
                   syncs, rulerConfig, nestedFlag, platform, rulerToml, argv, spawned>>

NextInit ==
    \/ InitStart
    \/ FetchClose
    \/ EnvClose
    \/ RulerInitClose

SpecInit == InitInit /\ [][NextInit]_vars

(***************************************************************************)
(* SpecPassthrough: `tkhrn-ruler <command> [args...]` for a command that   *)
(* is neither init nor apply (src/cli/index.ts).  The code of the child is *)
(* the shell's: when the shell finds no ruler it ends with 127 on posix    *)
(* and 1 on win32; spawn emits 'error' only when the shell itself cannot   *)
(* be started.                                                             *)
(***************************************************************************)
\* process.argv: the interpreter, the script, the command line
ProcessArgv(line) == <<"node", "tkhrn-ruler">> \o line

\* Array.prototype.indexOf, counted from 1; 0 when x is no element
IndexOf(sq, x) ==
    IF Includes(sq, x)
    THEN CHOOSE i \in 1..Len(sq) : sq[i] = x /\ \A j \in 1..(i - 1) : sq[j] # x
    ELSE 0

\* index.ts, line 46
PassthroughArgs(line, command) ==
    SubSeq(ProcessArgv(line), IndexOf(ProcessArgv(line), command),
           Len(ProcessArgv(line)))

\* the code the shell ends with when it finds no ruler
CommandNotFound(plat) == IF plat = "win32" THEN 1 ELSE 127

PassthroughLines ==
    {<<"revert">>, <<"revert", "--local-only">>, <<"revert", "--agents", "cursor">>,
     <<"revert", "--agents", "cursor claude">>, <<"compile">>,
     <<"compile", "--verbose", "--config", "my ruler.toml">>,
     <<"status", "revert">>, <<"help", "help">>}

InitPassthrough ==
    /\ argv \in PassthroughLines
    /\ platform \in {"posix", "win32"}
    /\ pc = "start"
    /\ spawned = <<>>
    /\ out = [exit |-> -1, child |-> "none", code |-> -1]
    /\ fs = EmptyFs /\ pre = EmptyFs /\ listing = "asc" /\ denied = {}
    /\ IdleNames /\ IdleSync /\ IdleConfig

\* passthrough, lines 45-53: commander hands the first operand over
Passthrough ==
    /\ pc = "start"
    /\ spawned' = Append(spawned, Spawn("ruler", PassthroughArgs(argv, argv[1])))
    /\ pc' = "child"
    /\ UNCHANGED <<fs, pre, inName, bakName, syncSource, syncDest, listing, denied,
                   syncs, out, rulerConfig, nestedFlag, platform, trace, rulerToml,
                   argv>>

\* child.on('close'), lines 65-67: ruler has ended with a code, the shell
\* has found no ruler, or the child was ended by a signal (code null)
PassthroughClose ==
    /\ pc = "child"
    /\ \/ \E code \in {0, 1, 2} :
             out' = [exit |-> code, child |-> "exited", code |-> code]
       \/ out' = [exit |-> CommandNotFound(platform), child |-> "not-found",
                  code |-> CommandNotFound(platform)]
       \/ out' = [exit |-> 0, child |-> "signal", code |-> -1]
    /\ pc' = "done"
    /\ UNCHANGED <<fs, pre, inName, bakName, syncSource, syncDest, listing, denied,
                   syncs, rulerConfig, nestedFlag, platform, trace, rulerToml, argv,
                   spawned>>

\* child.on('error'), lines 55-63: the shell could not be started
PassthroughError ==
    /\ pc = "child"
    /\ out' = [exit |-> 1, child |-> "spawn-error", code |-> -1]
    /\ pc' = "done"
    /\ UNCHANGED <<fs, pre, inName, bakName, syncSource, syncDest, listing, denied,
                   syncs, rulerConfig, nestedFlag, platform, trace, rulerToml, argv,
                   spawned>>

NextPassthrough ==
    \/ Passthrough
    \/ PassthroughClose
    \/ PassthroughError

SpecPassthrough == InitPassthrough /\ [][NextPassthrough]_vars

(***************************************************************************)
(* updateGitignore run again and again on one project (init.ts, lines      *)
(* 125-148), from every state of .gitignore.                               *)
(***************************************************************************)

MaxIgnoreLines == 3   \* lines of the .gitignore the project starts with

MaxUpdates == 3       \* runs of updateGitignore on one project

IgnoreLines == {"node_modules", ".handover/", "# keep .handover/x", ".env.mcp.local"}

RECURSIVE JoinLines(_)
JoinLines(ls) ==
    IF ls = <<>> THEN ""
    ELSE IF Len(ls) = 1 THEN Head(ls)
    ELSE Head(ls) \o "\n" \o JoinLines(Tail(ls))

\* the contents a .gitignore starts with: some lines, the last one with
\* or without its line end
GitignoreContents ==
    {JoinLines(ls) \o ending :
        ls \in UNION {[1..n -> IgnoreLines] : n \in 0..MaxIgnoreLines},
        ending \in {"", "\n"}}

\* .gitignore absent, a file, or (by accident) a directory
GitignoreTrees ==
    {EmptyFs}
        \cup {Overlay(EmptyFs, [p \in {GitignorePath} |-> content]) :
                 content \in GitignoreContents}
        \cup {Overlay(EmptyFs, [p \in {GitignorePath} |-> "dir"])}

InitGitignore ==
    /\ fs \in GitignoreTrees
    /\ pre = fs
    /\ pc = "gitignore"
    /\ out = [runs |-> <<>>, thrown |-> <<>>]
    /\ listing = "asc" /\ denied = {} /\ platform = "posix"
    /\ IdleNames /\ IdleSync /\ IdleConfig /\ IdleProcess

\* one run of updateGitignore, lines 125-148; the file system and whether
\* the run threw are noted after each run
UpdateGitignoreRun ==
    /\ pc = "gitignore"
    /\ Len(out.runs) < MaxUpdates
    /\ \E st \in {UpdateGitignore(Outcome(fs))} :
          /\ fs' = st.fs
          /\ out' = [runs |-> Append(out.runs, st.fs),
                     thrown |-> Append(out.thrown, st.thrown)]
    /\ UNCHANGED <<pre, pc, inName, bakName, syncSource, syncDest, listing, denied,
                   syncs, rulerConfig, nestedFlag, platform, trace, rulerToml, argv,
                   spawned>>

NextGitignore == UpdateGitignoreRun

SpecGitignore == InitGitignore /\ [][NextGitignore]_vars

(***************************************************************************)
(* Claims on the backup name                                               *)
(***************************************************************************)
\* position of the last "." of n, 0 when n has none
LastDot(n) ==
    LET dots == {i \in 1..Len(n) : Char(n, i) = "."}
    IN  IF dots = {} THEN 0 ELSE CHOOSE i \in dots : \A j \in dots : j <= i

\* C3: the backup name depends on the file name only: with the name split
\* at its last "." into stem and extension (no extension when there is no
\* "." or the last "." is the leading character), the backup name is
\* stem + ".bak" + extension; report.md gives report.bak.md, README gives
\* README.bak, a.b.md gives a.b.bak.md; it always differs from the name.
C3_BackupNameIsStemBakExt ==
    pc = "done" /\ inName # "" =>
        LET d    == LastDot(inName)
            stem == IF d <= 1 THEN inName ELSE SubSeq(inName, 1, d - 1)
            ext  == IF d <= 1 THEN "" ELSE SubSeq(inName, d, Len(inName))
        IN  /\ bakName = stem \o ".bak" \o ext
            /\ bakName # inName
            /\ inName = "report.md" => bakName = "report.bak.md"
            /\ inName = "README" => bakName = "README.bak"
            /\ inName = "a.b.md" => bakName = "a.b.bak.md"

C3_Witness ==
    pc = "done" /\ inName = ".gitkeep" /\ bakName = ".gitkeep.bak"


(***************************************************************************)
(* Claims on the tree synchronizer                                         *)
(***************************************************************************)
Rel(root, p) == SubSeq(p, Len(root) + 1, Len(p))

\* the files of the tree at root that are not placeholders, relative to root
ContentFiles(f, root) ==
    {Rel(root, p) : p \in {q \in FilesUnder(f, root) : Last(q) # ".gitkeep"}}

BackupPathOf(p) == Append(Parent(p), BackupName(Last(p)))

\* the destination files of before the run that the source holds too
Conflicting ==
    {F \in FilesUnder(pre, syncDest) :
        Rel(syncDest, F) \in ContentFiles(pre, syncSource)}

BackedUp(F) ==
    \E i \in 1..Len(out.log) : out.log[i].ev = "backup" /\ out.log[i].path = F

\* C1: a run into an empty or absent destination, with no file system
\* error, leaves in the destination exactly the non-placeholder files of the
\* source, same relative path and content; every source directory exists
\* there (one with a placeholder only holds no file) and nothing was backed up.
C1_EmptyDestinationMirrorsSource ==
    ( /\ Len(syncs) = 1
      /\ Under(pre, syncDest) = {}
      /\ ~IsFile(pre, syncDest)
      /\ ~Failed(out) ) =>
        /\ IsDir(fs, syncDest)
        /\ {Rel(syncDest, p) : p \in FilesUnder(fs, syncDest)}
               = ContentFiles(pre, syncSource)
        /\ \A r \in ContentFiles(pre, syncSource) :
               fs[syncDest \o r] = pre[syncSource \o r]
        /\ \A d \in DirsUnder(pre, syncSource) :
               IsDir(fs, syncDest \o Rel(syncSource, d))
        /\ \A i \in 1..Len(out.log) : out.log[i].ev # "backup"

C1_Witness ==
    /\ Len(syncs) = 1
    /\ ~Exists(pre, syncDest)
    /\ ~Failed(out)
    /\ Children(pre, Append(syncSource, "sub")) = {<<".ruler", "commands", "sub", ".gitkeep">>}
    /\ IsDir(fs, Append(syncDest, "sub"))
    /\ Children(fs, Append(syncDest, "sub")) = {}
    /\ IsFile(fs, Append(syncDest, "greet.md"))
    /\ fs[Append(syncDest, "greet.md")] = "src greet"

\* C2: every file F of the destination that the source holds too is, after
\* a run in which its backup rename succeeded, found with its old content at
\* its backup name, and F holds the content of the source file.
C2_ConflictBackedUpThenReplaced ==
    Len(syncs) >= 1 =>
        \A F \in Conflicting :
            BackedUp(F) =>
                /\ IsFile(fs, BackupPathOf(F))
                /\ fs[BackupPathOf(F)] = pre[F]
                /\ IsFile(fs, F)
                /\ fs[F] = pre[syncSource \o Rel(syncDest, F)]

\* C4: a file that was at the backup name of a conflicting file before the
\* run still has its content somewhere in the destination after it, unless
\* the run reported an error.
C4_EarlierBackupNotLostSilently ==
    Len(syncs) >= 1 =>
        \A F \in Conflicting :
            IsFile(pre, BackupPathOf(F)) =>
                \/ \E p \in FilesUnder(fs, syncDest) : fs[p] = pre[BackupPathOf(F)]
                \/ Failed(out)

\* the names BackupName yields: the backup marker stands before the
\* extension, or is the extension of a name that had none
IsBackupName(n) ==
    EndsWith(Basename(n, Extname(n)), ".bak") \/ Extname(n) = ".bak"

Backups(files) == {p \in files : IsBackupName(Last(p))}

\* C5: with a source that holds a non-placeholder file and no file system
\* error, every further synchronization of the unchanged source into the
\* same destination leaves more backup files in the destination than the
\* synchronization before it left.
C5_EveryRunAddsBackups ==
    \A i \in 2..Len(syncs) :
        (ContentFiles(fs, syncSource) # {} /\ \A j \in 1..i : ~syncs[j].failed) =>
            Cardinality(Backups(syncs[i].files))
                > Cardinality(Backups(syncs[i - 1].files))

(***************************************************************************)
(* Claims on the directory locator                                         *)
(***************************************************************************)
Range(sq) == {sq[i] : i \in 1..Len(sq)}

ExcludedName(n) ==
    n = "node_modules" \/ n = "dist" \/ n = ".git" \/ StartsWith(n, ".")

\* C10: with every directory readable, the result holds exactly the
\* directories named .ruler below the root, other than the root's own
\* .ruler, that no excluded directory name (node_modules, dist, .git, a
\* name starting with ".") lies on the way to.
C10_LocatorReturnsExactlyTheNestedRoots ==
    (pc = "done" /\ denied = {}) =>
        Range(out.results) =
            {p \in DOMAIN fs :
                /\ IsDir(fs, p)
                /\ Len(p) >= 1
                /\ Last(p) = ".ruler"
                /\ p # <<".ruler">>
                /\ \A i \in 1..(Len(p) - 1) : ~ExcludedName(p[i])}

(***************************************************************************)
(* Claims on apply                                                         *)
(***************************************************************************)
\* the events of the trace
Events == {trace[i] : i \in 1..Len(trace)}

RootEvents == {e \in Events : e.nestedRoot = <<>>}

NestedEvents == {e \in Events : e.nestedRoot # <<>>}

\* the value ruler.toml gives an agent under a key
Setting(agentName, key) == rulerConfig.agents[agentName][key]

HasSettings(agentName) ==
    rulerConfig.agents # <<>> /\ agentName \in DOMAIN rulerConfig.agents

DisabledAgents ==
    {a \in AgentNames : HasSettings(a) /\ Setting(a, "enabled") = "false"}

EnabledAgents == AgentNames \ DisabledAgents

\* the path of an agent in a category as the claims state it: the override
\* of ruler.toml when set and not empty, else the built-in default
OverrideKey(category) ==
    CASE category = "commands"  -> "command_path"
      [] category = "skills"    -> "skills_path"
      [] category = "subagents" -> "subagents_path"

OverrideSegments(value) ==
    CASE value = "out/cmds"             -> <<"out", "cmds">>
      [] value = ".claude/commands"     -> <<".claude", "commands">>
      [] value = ".claude/commands/sub" -> <<".claude", "commands", "sub">>

DefaultSegments(agentName, category) ==
    IF agentName = "claude" /\ category = "subagents"
    THEN <<".claude", "commands">>
    ELSE <<"." \o agentName, category>>

ExpectedSegments(agentName, category) ==
    IF HasSettings(agentName)
          /\ Setting(agentName, OverrideKey(category)) \notin {Undefined, ""}
    THEN OverrideSegments(Setting(agentName, OverrideKey(category)))
    ELSE DefaultSegments(agentName, category)

\* the part of a file system at and below a path
Subtree(f, d) == [p \in {q \in DOMAIN f : IsPrefix(d, q)} |-> f[p]]

\* the nested configuration roots of the project before apply
NestedRootsBefore ==
    {p \in DOMAIN pre : Len(p) >= 2 /\ Last(p) = ".ruler" /\ IsDir(pre, p)}

\* the destinations of an agent in a category: at the project root and at
\* the project directory of every nested configuration root
DestinationsOf(agentName, category) ==
    {ExpectedSegments(agentName, category)}
        \cup {Parent(r) \o ExpectedSegments(agentName, category) :
                 r \in NestedRootsBefore}

\* the first part of C6, true of every run: a disabled agent has no
\* synchronization, hence no error, in any category at the root or in a
\* nested root, and once apply is through every other agent has had its
\* synchronization of every category the root .ruler holds
DisabledSkippedOthersProcessed ==
    /\ \A e \in Events : e.agent \notin DisabledAgents
    /\ pc = "done" =>
          \A a \in EnabledAgents, c \in Categories :
              IsDir(pre, <<".ruler", c>>) =>
                  \E e \in RootEvents : e.agent = a /\ e.category = c

\* C6 as stated: a disabled agent is never synchronized, the others are,
\* and the tree under each destination of the disabled agent is as before
\* apply when no other agent's synchronization had that same path as its
\* destination.
C6_DisabledAgentUntouchedUnlessSamePath ==
    /\ DisabledSkippedOthersProcessed
    /\ \A a \in DisabledAgents, c \in Categories :
          \A d \in DestinationsOf(a, c) :
              (\A e \in Events : e.dest # d) => Subtree(fs, d) = Subtree(pre, d)

\* C6 amended: the tree under a destination of the disabled agent is as
\* before apply when no other agent's synchronization had as destination
\* that path, a path inside it or a path above it.
C6_DisabledAgentUntouchedUnlessOverlap ==
    /\ DisabledSkippedOthersProcessed
    /\ \A a \in DisabledAgents, c \in Categories :
          \A d \in DestinationsOf(a, c) :
              (\A e \in Events : ~IsPrefix(d, e.dest) /\ ~IsPrefix(e.dest, d))
                  => Subtree(fs, d) = Subtree(pre, d)

C6_Witness ==
    /\ pc = "done"
    /\ nestedFlag
    /\ DisabledAgents = {"claude"}
    /\ pre = FullProject
    /\ \E e \in RootEvents : e.agent = "cursor" /\ ~e.thrown
    /\ \E e \in NestedEvents : e.agent = "codex" /\ ~e.thrown
    /\ \A c \in Categories : \A d \in DestinationsOf("claude", c) :
          \A e \in Events : ~IsPrefix(d, e.dest) /\ ~IsPrefix(e.dest, d)
    /\ fs # pre

\* C7: once apply is through, every agent that is not disabled has had, for
\* every category the root .ruler holds, a synchronization at the project
\* root, and the destination of every such synchronization is the working
\* directory joined with the agent's override of the category when it is
\* set and not empty, else with the built-in default of the pair.
C7_RootDestinationIsOverrideOrDefault ==
    /\ \A e \in RootEvents : e.dest = ExpectedSegments(e.agent, e.category)
    /\ pc = "done" =>
          \A a \in EnabledAgents, c \in Categories :
              IsDir(pre, <<".ruler", c>>) =>
                  \E e \in RootEvents :
                      /\ e.agent = a /\ e.category = c
                      /\ e.dest = ExpectedSegments(a, c)

C7_Witness ==
    /\ pc = "done"
    /\ HasSettings("cursor") /\ Setting("cursor", "skills_path") = "out/cmds"
    /\ \E e \in RootEvents :
          e.agent = "cursor" /\ e.category = "skills" /\ e.dest = <<"out", "cmds">>
    /\ \E e \in RootEvents :
          e.agent = "codex" /\ e.category = "commands"
              /\ e.dest = <<".codex", "commands">>
    /\ \E e \in RootEvents :
          e.agent = "claude" /\ e.category = "subagents"
              /\ e.dest = <<".claude", "commands">>
    /\ IsFile(fs, <<"out", "cmds", "greet.md">>)

\* C8: the destination of a synchronization made for the nested
\* configuration root <root>/P/.ruler is <root>/P joined with the agent's
\* override or default path, and is no path inside <root>/P/.ruler.
C8_NestedDestinationRootedAtProject ==
    \A e \in NestedEvents :
        /\ e.dest = Parent(e.nestedRoot[1]) \o ExpectedSegments(e.agent, e.category)
        /\ ~IsPrefix(e.nestedRoot[1], e.dest)

\* C9: with --nested, once apply is through, every nested configuration
\* root the locator returns that holds a directory of a category has had a
\* synchronization of that directory for every enabled agent, whether or
\* not the root .ruler holds a directory of that category.
C9_EveryNestedRootSynchronized ==
    (pc = "done" /\ nestedFlag) =>
        \A r \in Range(FindNestedRulers(pre, <<>>, <<>>, <<>>, {}, listing)) :
            \A c \in Categories, a \in EnabledAgents :
                IsDir(pre, Append(r, c)) =>
                    \E e \in NestedEvents :
                        /\ e.nestedRoot = <<r>>
                        /\ e.agent = a /\ e.category = c
                        /\ e.source = Append(r, c)

\* C11: when the working directory holds no .ruler, apply exits with code 1
\* and has done nothing else: ruler.toml was not read, no subprocess was
\* started, no synchronization was made and the file system is as it was.
C11_NoRulerExitsBeforeAnyWork ==
    (~Exists(pre, <<".ruler">>) /\ pc # "start") =>
        /\ pc = "exit"
        /\ out.exit = "1"
        /\ ~out.tomlRead
        /\ rulerConfig = NoConfig
        /\ spawned = <<>>
        /\ trace = <<>>
        /\ fs = pre

C11_Witness ==
    /\ ~Exists(pre, <<".ruler">>)
    /\ pc = "exit"
    /\ out.exit = "1"
    /\ Includes(argv, "--nested")
    /\ spawned = <<>>

(***************************************************************************)
(* Claims on init                                                          *)
(***************************************************************************)
Happened(step) == \E i \in 1..Len(trace) : trace[i] = step

\* init is over
InitEnded == pc \in {"exit", "crashed", "done"}

\* steps 2 to 4 have run as the options ask: the environment template is
\* there, .gitignore is configured, `ruler init` was started
LaterStepsRan ==
    /\ ~Includes(argv, "--skip-env") => IsFile(fs, EnvPath)
    /\ ~Includes(argv, "--skip-gitignore") =>
          IsFile(fs, GitignorePath) /\ Contains(fs[GitignorePath], ".handover/")
    /\ \E i \in 1..Len(spawned) :
          spawned[i].command = "ruler" /\ spawned[i].args = <<"init">>

\* the second half of C12: with the ruleset in place, a failed download of
\* the environment template or a failed `ruler init` stops nothing
AfterRulesetNothingStops ==
    Happened("fetch-ok") =>
        /\ pc \in {"env", "rulerinit", "done"}
        /\ pc = "done" => out.exit = "0" /\ LaterStepsRan

MergeBlocked ==
    /\ Exists(pre, RulerDir)
    /\ \/ IsFile(pre, <<".ruler", "AGENTS.md">>) /\ <<".ruler", "AGENTS.md">> \in denied
       \/ IsFile(pre, <<".ruler", "commands">>)

RulerFilesBefore == {p \in DOMAIN pre : IsPrefix(RulerDir, p) /\ IsFile(pre, p)}

\* the content the file p had before init is still in a file of .ruler
Preserved(p) ==
    \E q \in DOMAIN fs : IsPrefix(RulerDir, q) /\ IsFile(fs, q) /\ fs[q] = pre[p]

\* C13: when init has run in a project that had a .ruler, the content of
\* every file of that .ruler, whatever its extension and its depth, is
\* still there: in the file itself or in a backup file.
C13_InitLosesNoFile ==
    (pc = "done" /\ Exists(pre, RulerDir)) =>
        \A p \in RulerFilesBefore : Preserved(p)

(***************************************************************************)
(* Claims on the passthrough                                               *)
(***************************************************************************)
\* C14: for a command other than init and apply, ruler is started with the
\* words of the command line from the command onward, each as it was
\* given, and the wrapper ends with the code ruler ended with, or with 1
\* when no ruler executable is found.
C14_PassthroughVerbatimAndExitMirrored ==
    /\ pc # "start" =>
          /\ Len(spawned) = 1
          /\ spawned[1].command = "ruler"
          /\ spawned[1].received = argv
    /\ (pc = "done" /\ out.child = "exited") => out.exit = out.code
    /\ (pc = "done" /\ out.child = "not-found") => out.exit = 1

\* C15: with --dry-run on the apply command line, ruler is started with
\* --dry-run among its arguments and the copy stages leave the file system
\* as it was.
C15_DryRunForwardedAndNothingCopied ==
    Includes(argv, "--dry-run") =>
        /\ \A i \in 1..Len(spawned) :
              spawned[i].command = "ruler" => Includes(spawned[i].received, "--dry-run")
        /\ fs = pre

(***************************************************************************)
(* Claims on updateGitignore                                               *)
(***************************************************************************)

\* C16: updateGitignore is idempotent: whatever .gitignore was at the start
\* (absent, or a file of any content), the file after the second and every
\* later run is the file after the first run.
C16_UpdateGitignoreIdempotent ==
    \A i \in 1..Len(out.runs) : out.runs[i] = out.runs[1]

\* a .gitignore without the marker has been extended by the first run and
\* run again; an absent one has been created and run again
C16_Witness ==
    /\ Len(out.runs) >= 2
    /\ Exists(pre, GitignorePath)
    /\ ~IsDir(pre, GitignorePath)
    /\ ~Contains(pre[GitignorePath], ".handover/")
    /\ out.runs[1][GitignorePath] = pre[GitignorePath] \o additions
    /\ fs = out.runs[1]

(***************************************************************************)
(* Claims on the configuration file of apply                               *)
(***************************************************************************)

\* C17: when ruler.toml is missing or cannot be parsed, apply goes on as
\* with an empty configuration: it does not exit at the start, the
\* configuration in force is the empty one, every synchronization goes to
\* the built-in default path of its agent and category, and no agent is
\* left out of a stage.
C17_NoTomlIsEmptyConfiguration ==
    (rulerToml.state # "valid" /\ Exists(pre, <<".ruler">>)) =>
        /\ pc # "exit"
        /\ pc # "start" => rulerConfig = NoConfig
        /\ \A e \in RootEvents : e.dest = DefaultSegments(e.agent, e.category)
        /\ \A e \in NestedEvents :
              EndsWith(e.dest, DefaultSegments(e.agent, e.category))
        /\ \A e \in Events : \A a \in AgentNames :
              \E other \in Events :
                  /\ other.agent = a
                  /\ other.category = e.category
                  /\ other.nestedRoot = e.nestedRoot
        /\ pc = "done" =>
              \A a \in AgentNames, c \in Categories :
                  IsDir(pre, <<".ruler", c>>) =>
                      \E e \in RootEvents : e.agent = a /\ e.category = c

\* apply has ended with a ruler.toml the parser refused, whose text
\* disables claude, and claude's commands were synchronized
C17_Witness ==
    /\ pc = "done"
    /\ rulerToml = BrokenToml
    /\ \E e \in RootEvents :
          /\ e.agent = "claude" /\ e.category = "commands"
          /\ e.dest = <<".claude", "commands">>
          /\ ~e.thrown

(***************************************************************************)
(* Claims on failures of the copy stages                                   *)
(***************************************************************************)

\* the three copy stages of apply, lines 204-215, run one after the other
RECURSIVE CopyStages(_, _, _, _, _)
CopyStages(ap, config, nestedOpt, categories, env) ==
    IF categories = <<>> THEN ap
    ELSE CopyStages(CopyCategory(ap, <<>>, config, nestedOpt, Head(categories), env),
                    config, nestedOpt, Tail(categories), env)

\* the synchronizations of the same apply when the operating system
\* refuses nothing
NoFailureTrace ==
    CopyStages([fs |-> pre, trace |-> <<>>], rulerConfig, nestedFlag,
               <<"commands", "skills", "subagents">>,
               [platform |-> platform, denied |-> {}, listing |-> listing]).trace

\* which synchronization an event is
KeyOf(e) ==
    [agent |-> e.agent, category |-> e.category, nestedRoot |-> e.nestedRoot,
     source |-> e.source, dest |-> e.dest]

\* an earlier synchronization that threw has written below the same
\* destination
AfterFailureOnSameDestination(tr, i) ==
    \E j \in 1..(i - 1) :
        /\ tr[j].thrown
        /\ IsPrefix(tr[j].dest, tr[i].dest) \/ IsPrefix(tr[i].dest, tr[j].dest)

\* C18: an exception of one agent's synchronization stays in the stage's
\* loop: the synchronizations made are, one by one and in order, those of
\* the same apply without any failure (same agent, category, root, source
\* and destination), all of them are made by the end, and a synchronization
\* that did not throw and does not share its destination with one that did
\* has the same outcome as without any failure.
C18_FailureOfOneAgentStopsNothing ==
    pc \in {"commands", "skills", "subagents", "done"} =>
        \A ref \in {NoFailureTrace} :
            /\ Len(trace) <= Len(ref)
            /\ pc = "done" => Len(trace) = Len(ref)
            /\ \A i \in 1..Len(trace) :
                  /\ KeyOf(trace[i]) = KeyOf(ref[i])
                  /\ (~trace[i].thrown /\ ~AfterFailureOnSameDestination(trace, i))
                        => trace[i] = ref[i]

\* apply has ended; cursor's synchronization of the commands threw, and
\* after it the codex commands and the cursor skills were copied
C18_Witness ==
    /\ pc = "done"
    /\ \E i, j, k \in 1..Len(trace) :
          /\ i < j /\ j < k
          /\ trace[i].agent = "cursor" /\ trace[i].category = "commands"
          /\ trace[i].thrown
          /\ trace[j].agent = "codex" /\ trace[j].category = "commands"
          /\ ~trace[j].thrown
          /\ fs[Append(trace[j].dest, "greet.md")] = pre[<<".ruler", "commands", "greet.md">>]
          /\ trace[k].agent = "cursor" /\ trace[k].category = "skills"
          /\ ~trace[k].thrown

\* C19: from the moment ruler has ended with code 0, apply reaches its end
\* with exit code 0, whether or not synchronizations of the three stages
\* threw.
C19_AfterRulerSuccessApplyEndsWithZero ==
    (pc = "commands") ~> (pc = "done" /\ out.exit = "0")

\* apply has ended with exit code 0 although synchronizations of two
\* stages threw
C19_Witness ==
    /\ pc = "done"
    /\ out.exit = "0"
    /\ \E e1, e2 \in Events :
          /\ e1.thrown /\ e2.thrown
          /\ e1.category # e2.category

\* the steps of apply follow the order of its statements
ApplyStepsAdvance == [][ApplyAdvances]_vars

(***************************************************************************)
(* Claims on a failed backup                                               *)
(***************************************************************************)

\* the destination files whose backup rename failed in the last run
BackupFailed ==
    {out.log[i].path : i \in {k \in 1..Len(out.log) : out.log[k].ev = "skip"}}

\* the log holds an attempt to copy onto the path
CopyAttempted(F) ==
    \E i \in 1..Len(out.log) :
        out.log[i].ev \in {"copy", "copy-failed"} /\ out.log[i].to = F

\* C20: a destination file whose backup rename failed keeps the content it
\* had before the run and no copy onto it is attempted; the failure itself
\* throws nothing (an exception that leaves the synchronizer comes from a
\* later copy, directory creation or listing); and when nothing else fails
\* every other non-placeholder file of the source tree is at its
\* destination with the source's content.
C20_FailedBackupSkipsThatFileOnly ==
    (Len(syncs) >= 1 /\ BackupFailed # {}) =>
        /\ \A F \in BackupFailed :
              /\ IsFile(fs, F) /\ fs[F] = pre[F]
              /\ ~CopyAttempted(F)
        /\ out.thrown => out.log[Len(out.log)].ev # "skip"
        /\ ~out.thrown =>
              \A r \in ContentFiles(pre, syncSource) :
                  (syncDest \o r) \notin BackupFailed =>
                      /\ IsFile(fs, syncDest \o r)
                      /\ fs[syncDest \o r] = pre[syncSource \o r]

(***************************************************************************)
(* Claims on a failed copy                                                 *)
(***************************************************************************)

\* the destination paths onto which a copy failed in the last run
CopyFailed ==
    {out.log[i].path : i \in {k \in 1..Len(out.log) : out.log[k].ev = "copy-failed"}}

\* the log holds a copy onto the path, a failed one, or the skip after a
\* failed backup
Attempted(F) ==
    \E i \in 1..Len(out.log) :
        \/ out.log[i].ev \in {"copy", "copy-failed"} /\ out.log[i].to = F
        \/ out.log[i].ev = "skip" /\ out.log[i].path = F

\* C21: when the copy of one file fails during a synchronization, no
\* exception ends the synchronization, and every other non-placeholder file
\* of the source tree is still attempted.
C21_FailedCopyAbortsNoSibling ==
    (Len(syncs) >= 1 /\ CopyFailed # {}) =>
        /\ ~out.thrown
        /\ \A r \in ContentFiles(pre, syncSource) : Attempted(syncDest \o r)

(***************************************************************************)
(* Claims on the order of the stages of apply                              *)
(***************************************************************************)

\* C22: the nested synchronizations come after the three root-level
\* stages: in the order in which apply made them, no synchronization of a
\* nested configuration root stands before one of the root .ruler.
C22_NestedAfterAllRootStages ==
    \A i, j \in 1..Len(trace) :
        (i < j /\ trace[i].nestedRoot # <<>>) => trace[j].nestedRoot # <<>>

\* C23: a synchronization is made, and a copy stage is entered, only after
\* ruler has closed with code 0; when ruler could not be started or closed
\* with another code, apply is at its end without any synchronization and
\* with the file system as it was.
C23_NoStageUnlessRulerSucceeded ==
    /\ (trace # <<>> \/ pc \in {"commands", "skills", "subagents", "done"})
          => out.ruler = "0"
    /\ out.ruler \in {"1", "error"} =>
          /\ pc = "rejected"
          /\ trace = <<>>
          /\ fs = pre

\* ruler has closed with code 1 in a project whose .ruler holds commands
\* for the agents: nothing was copied
C23_Witness ==
    /\ out.ruler = "1"
    /\ pc = "rejected"
    /\ IsFile(pre, <<".ruler", "commands", "greet.md">>)
    /\ ~Exists(fs, <<".cursor">>)

\* C24: when ruler fails during apply, apply catches the failure and ends
\* with a clean exit of code 1: the promise of the apply action is never
\* left rejected.
C24_RulerFailureEndsInCleanExit ==
    out.ruler \in {"1", "error"} =>
        /\ out.exit # "rejected"
        /\ out.exit = "1"

(***************************************************************************)
(* Further claims on findNestedRulers                                      *)
(***************************************************************************)

\* C25: no path of the result lies below a directory named .ruler: a
\* .ruler directory inside the root's .ruler or inside a nested .ruler is
\* not reported.
C25_NothingReportedBelowARulerDirectory ==
    pc = "done" =>
        \A p \in Range(out.results) :
            \A i \in 1..(Len(p) - 1) : p[i] # ".ruler"

\* C26: a directory whose listing fails contributes nothing and stops
\* nothing: the result holds exactly the paths the locator returns when
\* every listing succeeds that do not lie below that directory.
C26_FailedListingDropsOnlyItsSubtree ==
    pc = "done" =>
        Range(out.results) =
            {p \in Range(FindNestedRulers(fs, <<>>, <<>>, <<>>, {}, listing)) :
                \A d \in denied : ~IsPrefix(d, p)}

\* pkg cannot be listed: pkg/.ruler is missing from the result, the match
\* in another part of the tree is there
C26_Witness ==
    /\ pc = "done"
    /\ denied = {<<"pkg">>}
    /\ IsDir(fs, <<"pkg", ".ruler">>)
    /\ IsDir(fs, <<"pkg", "web", ".ruler">>)
    /\ out.results = <<<<".ruler", "commands", ".ruler">>>>

(***************************************************************************)
(* Claims on the shared destination of claude                              *)
(***************************************************************************)

\* ruler.toml overrides no path
NoOverrides ==
    \A a \in AgentNames, k \in PathKeys :
        HasSettings(a) => Setting(a, k) \in {Undefined, ""}

\* no synchronization of the agent threw or skipped a file
Unhindered(agentName) ==
    \A e \in Events :
        e.agent = agentName =>
            /\ ~e.thrown
            /\ \A i \in 1..Len(e.log) : e.log[i].ev # "skip"

\* C27: with default paths and claude enabled, after an apply of a project
\* whose .ruler/commands and .ruler/subagents both hold greet.md, and in
\* which no synchronization of claude failed, .claude/commands/greet.md
\* holds the content of the subagents file and .claude/commands/greet.bak.md
\* the content of the commands file.
C27_ClaudeSubagentsReplaceCommands ==
    (/\ pc = "done"
     /\ NoOverrides
     /\ "claude" \in EnabledAgents
     /\ Unhindered("claude")
     /\ IsFile(pre, <<".ruler", "commands", "greet.md">>)
     /\ IsFile(pre, <<".ruler", "subagents", "greet.md">>)) =>
        /\ IsFile(fs, <<".claude", "commands", "greet.md">>)
        /\ fs[<<".claude", "commands", "greet.md">>]
              = pre[<<".ruler", "subagents", "greet.md">>]
        /\ IsFile(fs, <<".claude", "commands", "greet.bak.md">>)
        /\ fs[<<".claude", "commands", "greet.bak.md">>]
              = pre[<<".ruler", "commands", "greet.md">>]

\* such an apply has ended in a project without .claude; the commands
\* stage came before the subagents stage
C27_Witness ==
    /\ pc = "done"
    /\ NoOverrides
    /\ ~Exists(pre, <<".claude">>)
    /\ pre[<<".ruler", "commands", "greet.md">>] # pre[<<".ruler", "subagents", "greet.md">>]
    /\ fs[<<".claude", "commands", "greet.md">>] = pre[<<".ruler", "subagents", "greet.md">>]
    /\ fs[<<".claude", "commands", "greet.bak.md">>] = pre[<<".ruler", "commands", "greet.md">>]
    /\ \E i, j \in 1..Len(trace) :
          /\ i < j
          /\ trace[i].agent = "claude" /\ trace[i].category = "commands"
          /\ trace[j].agent = "claude" /\ trace[j].category = "subagents"
          /\ trace[i].dest = trace[j].dest

(***************************************************************************)
(* Claims on what a synchronization leaves alone                           *)
(***************************************************************************)

\* the destination paths of the non-placeholder source files, and the
\* backup paths of those of them that existed before the run
SyncTargets ==
    LET copied == {syncDest \o r : r \in ContentFiles(pre, syncSource)}
    IN  copied \cup {BackupPathOf(F) : F \in {G \in copied : Exists(pre, G)}}

\* C28: a synchronization leaves the source tree as it was, deletes no
\* entry of the file system, and changes no entry other than its targets:
\* the destination paths of the non-placeholder source files and the backup
\* paths of those that existed before.
C28_SyncChangesOnlyItsTargets ==
    Len(syncs) >= 1 =>
        /\ Subtree(fs, syncSource) = Subtree(pre, syncSource)
        /\ \A p \in DOMAIN pre :
              /\ p \in DOMAIN fs
              /\ p \notin SyncTargets => fs[p] = pre[p]

(***************************************************************************)
(* Claims on the end of a synchronization                                  *)
(***************************************************************************)

\* the last run was stopped by the file system refusing a path that is
\* longer than it accepts
StoppedAtPathLimit ==
    /\ out.thrown
    /\ out.log[Len(out.log)].ev = "mkdir-failed"
    /\ Len(out.log[Len(out.log)].path) > MaxPathLen

\* C29: a synchronization comes to its end by itself, wherever the
\* destination lies: its recursion never goes on until the file system
\* refuses the length of the path.
C29_SyncEndsByItself ==
    Len(syncs) >= 1 => ~StoppedAtPathLimit


\* C30: when init has run to its end without --skip-gitignore, .gitignore
\* holds both the entry .handover/ and the entry .env.mcp.local, whatever
\* it held before, also when it held .handover/ and not .env.mcp.local
C30_InitLeavesBothIgnoreEntries ==
    (pc = "done" /\ ~Includes(argv, "--skip-gitignore")) =>
        /\ IsFile(fs, GitignorePath)
        /\ Contains(fs[GitignorePath], ".handover/")
        /\ Contains(fs[GitignorePath], ".env.mcp.local")

====
